---------------------------- MODULE Spec2Model ----------------------------
(***************************************************************************)
(* Model of the cell-count pipeline: load_data.py (initialize_database,    *)
(* load_data), analysis.py (run_analysis, run_statistical_analysis,        *)
(* run_subset_analysis) and part4_query.py (calculate_avg_b_cells).        *)
(*                                                                         *)
(* The store is the SQLite file cell_counts.db: its schema (tables), the   *)
(* committed rows of Subjects and Samples, and the rows pending in the     *)
(* open transaction of load_data's connection.  The CSV reader is lazy     *)
(* (csv.DictReader), so the source file is modelled as the rows the reader *)
(* yields one at a time; `source` records the rows yielded in this pass.   *)
(***************************************************************************)
EXTENDS Integers, Sequences, FiniteSets, TLC

VARIABLES
    dbExists,            \* os.path.exists(DB_FILE)
    tables,              \* names of the tables the store's schema holds
    Subjects,            \* committed rows of table Subjects (a set: PRIMARY KEY subject_id)
    Samples,             \* committed rows of table Samples, in rowid order
    pendSubjects,        \* Subjects rows inserted in the open transaction
    pendSamples,         \* Samples rows inserted in the open transaction
    openConns,           \* operations whose sqlite3 connection is open
    pc,                  \* position of load_data: "idle", "reading", "subject_done"
    cur,                 \* the row of the for-loop's current iteration
    processed_subjects,  \* load_data's local set
    source,              \* rows the reader has yielded in this pass
    run,                 \* where the run initialize_database(); load_data() stands
    outcome,             \* how the last ingestion operation ended
    report               \* what the last analysis operation printed/returned

vars == <<dbExists, tables, Subjects, Samples, pendSubjects, pendSamples, openConns,
          pc, cur, processed_subjects, source, run, outcome, report>>

storeVars == <<dbExists, tables, Subjects, Samples, pendSubjects, pendSamples>>

(***************************************************************************)
(* Bounds of the model.                                                    *)
(***************************************************************************)
MaxRows == 2        \* rows a source file holds at most
MaxSamples == 4     \* Samples rows of a store handed to the analysis operations

(***************************************************************************)
(* Configuration: analysis.py line 10.                                     *)
(***************************************************************************)
CELL_POPULATIONS == <<"b_cell", "cd8_t_cell", "cd4_t_cell", "nk_cell", "monocyte">>

PopulationSet == {CELL_POPULATIONS[i] : i \in DOMAIN CELL_POPULATIONS}

\* The integer columns load_data parses for every row, in evaluation order.
SampleIntColumns == <<"time_from_treatment_start">> \o CELL_POPULATIONS

\* The schema initialize_database creates.
SubjectsColumns == {"subject_id", "project", "condition", "age", "sex", "treatment", "response"}

SamplesColumns == {"sample_id", "subject_id", "sample_type", "time_from_treatment_start",
                   "b_cell", "cd8_t_cell", "cd4_t_cell", "nk_cell", "monocyte"}

ColumnsOf(t) == CASE t = "Subjects" -> SubjectsColumns
                  [] t = "Samples" -> SamplesColumns
                  [] OTHER -> {}

(***************************************************************************)
(* int(text): a CSV field is text, here a tuple of characters.  Python's   *)
(* int accepts an optional sign followed by decimal digits (surrounding    *)
(* blanks and digit-group underscores are outside the modelled alphabet)   *)
(* and raises ValueError for anything else, the empty field included.      *)
(***************************************************************************)
Digits == {"0", "1", "2", "3", "4", "5", "6", "7", "8", "9"}

DigitVal(c) == CASE c = "0" -> 0 [] c = "1" -> 1 [] c = "2" -> 2 [] c = "3" -> 3
                 [] c = "4" -> 4 [] c = "5" -> 5 [] c = "6" -> 6 [] c = "7" -> 7
                 [] c = "8" -> 8 [] c = "9" -> 9

HasSign(t) == Len(t) > 0 /\ t[1] \in {"+", "-"}

Magnitude(t) == IF HasSign(t) THEN Tail(t) ELSE t

IsIntText(t) == /\ Len(Magnitude(t)) > 0
                /\ \A i \in DOMAIN Magnitude(t) : Magnitude(t)[i] \in Digits

RECURSIVE DigitsValue(_)
DigitsValue(d) == IF d = <<>> THEN 0
                  ELSE 10 * DigitsValue(SubSeq(d, 1, Len(d) - 1)) + DigitVal(d[Len(d)])

IntOf(t) == IF HasSign(t) /\ t[1] = "-" THEN 0 - DigitsValue(Magnitude(t))
            ELSE DigitsValue(Magnitude(t))

(***************************************************************************)
(* Source rows: what csv.DictReader yields for one line of the file.       *)
(***************************************************************************)
BaselineNumbers == [c \in {SampleIntColumns[i] : i \in DOMAIN SampleIntColumns} |->
                  CASE c = "time_from_treatment_start" -> <<"0">>
                    [] c = "b_cell" -> <<"1", "2">>
                    [] c = "cd8_t_cell" -> <<"7">>
                    [] c = "cd4_t_cell" -> <<"3">>
                    [] c = "nk_cell" -> <<"5">>
                    [] c = "monocyte" -> <<"9">>]

\* A sample taken a week before treatment starts: a signed integer.
EarlierNumbers == [BaselineNumbers EXCEPT !["time_from_treatment_start"] = <<"-", "7">>]

GoodNumbers == {BaselineNumbers, EarlierNumbers}

\* One integer column of the row holds text that is no integer, or the row's last
\* field is empty.
BadNumbers == {[BaselineNumbers EXCEPT ![c] = <<"x">>] :
                 c \in {SampleIntColumns[i] : i \in DOMAIN SampleIntColumns}}
              \cup {[BaselineNumbers EXCEPT !["monocyte"] = <<>>]}

AgeTexts == {<<"3", "4">>, <<"x">>, <<>>}

MkRow(s, p, a, id, n) ==
    [subject |-> s, project |-> p, condition |-> "melanoma", age |-> a, sex |-> "M",
     treatment |-> "miraclib", response |-> "yes", sample |-> id, sample_type |-> "PBMC",
     time_from_treatment_start |-> n["time_from_treatment_start"],
     b_cell |-> n["b_cell"], cd8_t_cell |-> n["cd8_t_cell"], cd4_t_cell |-> n["cd4_t_cell"],
     nk_cell |-> n["nk_cell"], monocyte |-> n["monocyte"]]

SourceRows == {MkRow(s, p, a, id, n) : s \in {"s1", "s2"}, p \in {"prj1", "prj2"},
                                       a \in AgeTexts, id \in {"a", "b"},
                                       n \in GoodNumbers \cup BadNumbers}

NoRow == [subject |-> "none"]

(***************************************************************************)
(* Rows as stored.                                                         *)
(***************************************************************************)
\* The parameter tuple with project and condition in each other's place.
SubjectRecordSwapped(row) ==
    [subject_id |-> row.subject, project |-> row.condition, condition |-> row.project,
     age |-> IntOf(row.age), sex |-> row.sex, treatment |-> row.treatment,
     response |-> row.response]

\* load_data lines 95-103: the parameter tuple of INSERT INTO Subjects.
SubjectRecord(row) ==
    [subject_id |-> row.subject, project |-> row.project, condition |-> row.condition,
     age |-> IntOf(row.age), sex |-> row.sex, treatment |-> row.treatment,
     response |-> row.response]

\* load_data lines 110-120: the parameter tuple of INSERT INTO Samples.
SampleRecord(row) ==
    [sample_id |-> row.sample, subject_id |-> row.subject, sample_type |-> row.sample_type,
     time_from_treatment_start |-> IntOf(row.time_from_treatment_start),
     b_cell |-> IntOf(row.b_cell), cd8_t_cell |-> IntOf(row.cd8_t_cell),
     cd4_t_cell |-> IntOf(row.cd4_t_cell), nk_cell |-> IntOf(row.nk_cell),
     monocyte |-> IntOf(row.monocyte)]

SampleIntsParse(row) == \A i \in DOMAIN SampleIntColumns : IsIntText(row[SampleIntColumns[i]])

\* The rows the load_data connection sees: committed plus its own pending ones.
VisibleSubjects == Subjects \cup pendSubjects
VisibleSamples == Samples \o pendSamples

(***************************************************************************)
(* Transaction and connection effects.                                     *)
(***************************************************************************)
\* conn.commit(): the pending rows become committed.
Commit == /\ Subjects' = Subjects \cup pendSubjects
          /\ Samples' = Samples \o pendSamples
          /\ pendSubjects' = {}
          /\ pendSamples' = <<>>

\* An error handler that commits what the pass has inserted so far.
CommitOnError == Commit

\* conn.rollback() (line 130): the pending rows are discarded.
Rollback == /\ pendSubjects' = {}
            /\ pendSamples' = <<>>
            /\ UNCHANGED <<Subjects, Samples>>

\* conn.close() in an operation's normal or finally path.
Close(op) == openConns' = openConns \ {op}

\* sqlite3.connect succeeded and no close() has run for it yet.
Open(op) == openConns' = openConns \cup {op}

(***************************************************************************)
(* initialize_database (load_data.py lines 12-65), as one step.  `fault`   *)
(* is what the environment does to it: nothing, a failing connect, or a    *)
(* failing CREATE TABLE (disk full, I/O error).  DDL is not wrapped in a   *)
(* transaction by the sqlite3 module, so a created table stays created.    *)
(***************************************************************************)
InitFaults == {"none", "connect", "create_subjects", "create_samples"}

InitializeDatabase(fault) ==
    /\ pc = "idle"
    /\ Subjects' = {}                       \* lines 18-19: the old file is removed
    /\ Samples' = <<>>
    /\ UNCHANGED <<pendSubjects, pendSamples>>
    /\ dbExists' = (fault # "connect")      \* line 23 creates the file
    /\ tables' = CASE fault = "none" -> {"Subjects", "Samples"}
                   [] fault = "create_samples" -> {"Subjects"}
                   [] OTHER -> {}
    /\ IF fault \in {"create_subjects", "create_samples"}
       THEN Open("initialize_database")     \* the exception leaves before line 65
       ELSE Close("initialize_database")
    /\ run' = IF fault = "none" THEN "initialized" ELSE "none"
    /\ outcome' = [op |-> "initialize_database",
                   status |-> IF fault = "none" THEN "ok" ELSE "raised"]
    /\ report' = [op |-> "none"]
    /\ UNCHANGED <<pc, cur, processed_subjects, source>>

(***************************************************************************)
(* load_data (load_data.py lines 67-132), one step per statement group.    *)
(***************************************************************************)
\* `run` follows the main block (lines 135-137): "initialized" once
\* initialize_database has returned, "loading" and then "loaded" for the load_data
\* call that follows it, "stale" once load_data is called again without it.
RunAtLoadStart == CASE run = "initialized" -> "loading"
                    [] run \in {"loaded", "stale"} -> "stale"
                    [] OTHER -> run

RunAfterLoad(r) == IF r = "loading" THEN "loaded" ELSE r

\* How a pass that leaves through `except`/`finally` ends.
EndLoad(status) ==
    /\ pc' = "idle"
    /\ cur' = NoRow
    /\ run' = RunAfterLoad(run)
    /\ outcome' = [op |-> "load_data", status |-> status]
    /\ Close("load_data")                  \* finally: conn.close()
    /\ UNCHANGED <<dbExists, tables, processed_subjects, report>>

\* except Exception (lines 128-130): print, rollback; then finally.
OnException == Rollback /\ EndLoad("error")

\* Lines 73-81: connect, the empty set, open the CSV file.
LoadDataStart(fault) ==
    /\ pc = "idle"
    /\ processed_subjects' = {}
    /\ source' = <<>>
    /\ cur' = NoRow
    /\ report' = [op |-> "none"]
    /\ UNCHANGED <<tables, Subjects, Samples, pendSubjects, pendSamples>>
    /\ CASE fault = "connect" ->           \* line 73 raises: nothing was opened
              /\ pc' = "idle"
              /\ run' = RunAfterLoad(RunAtLoadStart)
              /\ outcome' = [op |-> "load_data", status |-> "raised"]
              /\ UNCHANGED <<dbExists, openConns>>
         [] fault = "no_file" ->           \* except FileNotFoundError; finally
              /\ pc' = "idle"
              /\ run' = RunAfterLoad(RunAtLoadStart)
              /\ outcome' = [op |-> "load_data", status |-> "not_found"]
              /\ dbExists' = TRUE
              /\ Close("load_data")
         [] OTHER ->
              /\ pc' = "reading"
              /\ run' = RunAtLoadStart
              /\ outcome' = [op |-> "load_data", status |-> "running"]
              /\ dbExists' = TRUE          \* sqlite3.connect creates a missing file
              /\ Open("load_data")

LoadFaults == {"none", "connect", "no_file"}

\* INSERT INTO Subjects succeeds: the table exists and the key is new.
CanInsertSubject(row) ==
    /\ "Subjects" \in tables
    /\ \A s \in VisibleSubjects : s.subject_id # row.subject

\* Line 91: the subject is new to this pass.
IsNewSubject(row) == row.subject \notin processed_subjects

\* A loop body that marks the subject as processed without inserting its row.
SkipSubjectInsert(row) == pendSubjects' = pendSubjects

\* Lines 92-104: the Subjects row of the current source row joins the transaction.
InsertSubject(row) == pendSubjects' = pendSubjects \cup {SubjectRecord(row)}

\* Lines 87-104: the reader yields a row; the Subjects part of the loop body.
ReadRow(row) ==
    /\ pc = "reading"
    /\ Len(source) < MaxRows
    /\ IF IsNewSubject(row)
       THEN IF IsIntText(row.age) /\ CanInsertSubject(row)
            THEN /\ InsertSubject(row)
                 /\ processed_subjects' = processed_subjects \cup {row.subject}
                 /\ source' = Append(source, row)
                 /\ cur' = row
                 /\ pc' = "subject_done"
                 /\ UNCHANGED <<dbExists, tables, Subjects, Samples, pendSamples,
                                openConns, run, outcome, report>>
            ELSE \* int(row['age']) or the INSERT raises
                 /\ OnException
                 /\ source' = Append(source, row)
       ELSE /\ source' = Append(source, row)
            /\ cur' = row
            /\ pc' = "subject_done"
            /\ UNCHANGED <<storeVars, openConns, processed_subjects, run, outcome, report>>

\* INSERT INTO Samples succeeds: the table exists and the key is new.
CanInsertSample(row) ==
    /\ "Samples" \in tables
    /\ \A i \in DOMAIN VisibleSamples : VisibleSamples[i].sample_id # row.sample

\* Lines 107-120: the Samples part of the loop body, for the current row.
InsertSample ==
    /\ pc = "subject_done"
    /\ IF SampleIntsParse(cur) /\ CanInsertSample(cur)
       THEN /\ pendSamples' = Append(pendSamples, SampleRecord(cur))
            /\ pc' = "reading"
            /\ cur' = NoRow
            /\ UNCHANGED <<dbExists, tables, Subjects, Samples, pendSubjects, openConns,
                           processed_subjects, source, run, outcome, report>>
       ELSE \* one of the int(...) calls or the INSERT raises
            /\ OnException
            /\ UNCHANGED source

\* Lines 122-123 and 131-132: the reader is exhausted; commit, then finally.
\* `fault`: conn.commit() itself raises (disk full), which except Exception catches.
EndOfFile(fault) ==
    /\ pc = "reading"
    /\ IF fault THEN OnException
       ELSE Commit /\ EndLoad("ok")
    /\ UNCHANGED source

(***************************************************************************)
(* Specification of the ingestion script: initialize_database and          *)
(* load_data, called in any order, over every source file of at most       *)
(* MaxRows rows.                                                           *)
(***************************************************************************)
Init ==
    /\ dbExists = FALSE
    /\ tables = {}
    /\ Subjects = {}
    /\ Samples = <<>>
    /\ pendSubjects = {}
    /\ pendSamples = <<>>
    /\ openConns = {}
    /\ pc = "idle"
    /\ cur = NoRow
    /\ processed_subjects = {}
    /\ source = <<>>
    /\ run = "none"
    /\ outcome = [op |-> "none", status |-> "none"]
    /\ report = [op |-> "none"]

Next ==
    \/ \E fault \in InitFaults : InitializeDatabase(fault)
    \/ \E fault \in LoadFaults : LoadDataStart(fault)
    \/ \E row \in SourceRows : ReadRow(row)
    \/ InsertSample
    \/ \E fault \in BOOLEAN : EndOfFile(fault)

Spec == Init /\ [][Next]_vars

(***************************************************************************)
(* Data-frame helpers of the analysis operations (pandas).                 *)
(***************************************************************************)
RECURSIVE SumOver(_, _)
SumOver(row, cols) == IF cols = <<>> THEN 0
                      ELSE row[Head(cols)] + SumOver(row, Tail(cols))

\* df['total_count'] = df[CELL_POPULATIONS].sum(axis=1)   (lines 36, 82)
WithTotal(df) == [i \in DOMAIN df |->
                    df[i] @@ [total_count |-> SumOver(df[i], CELL_POPULATIONS)]]

\* One value_vars block of DataFrame.melt: every row of df, for population p.
MeltBlock(df, id_vars, p) ==
    [i \in DOMAIN df |-> [c \in id_vars |-> df[i][c]] @@ [population |-> p, count |-> df[i][p]]]

RECURSIVE MeltOver(_, _, _)
MeltOver(df, id_vars, pops) ==
    IF pops = <<>> THEN <<>>
    ELSE MeltBlock(df, id_vars, Head(pops)) \o MeltOver(df, id_vars, Tail(pops))

\* A melt that stops one value column short.
MeltDropsLast(df, id_vars) ==
    MeltOver(df, id_vars, SubSeq(CELL_POPULATIONS, 1, Len(CELL_POPULATIONS) - 1))

\* df.melt(id_vars=..., value_vars=CELL_POPULATIONS, var_name='population',
\*         value_name='count')   (lines 37, 83-88)
Melt(df, id_vars) == MeltOver(df, id_vars, CELL_POPULATIONS)

\* count / total_count * 100 (line 89): NaN for 0/0, else the exact quotient.
Percentage(count, total) ==
    IF total = 0 THEN [nan |-> TRUE, num |-> 0, den |-> 1]
    ELSE [nan |-> FALSE, num |-> count * 100, den |-> total]

\* (count / total_count * 100).round(2) (line 39), in hundredths of a percent,
\* rounding half to even as numpy does.
Round2(count, total) ==
    IF total = 0 THEN [nan |-> TRUE, hundredths |-> 0]
    ELSE LET q == (count * 10000) \div total
             r == (count * 10000) % total
         IN  [nan |-> FALSE,
              hundredths |-> IF 2 * r > total \/ (2 * r = total /\ q % 2 = 1)
                             THEN q + 1 ELSE q]

\* Alphabetical order of the strings the reports sort by.
SampleIdOrder == <<"a", "b", "c", "d", "e", "f", "g", "h">>
PopulationOrder == <<"b_cell", "cd4_t_cell", "cd8_t_cell", "monocyte", "nk_cell">>

RankIn(order, x) == CHOOSE i \in DOMAIN order : order[i] = x

SortKey(r) == (RankIn(SampleIdOrder, r.sample) * (Len(PopulationOrder) + 1))
              + RankIn(PopulationOrder, r.population)

\* The place of row i in the sorted frame: after the rows of smaller keys and
\* the earlier rows of the same key.
PlaceOf(key, i) ==
    Cardinality({j \in DOMAIN key : key[j] < key[i] \/ (key[j] = key[i] /\ j < i)}) + 1

Permute(rows, place) == [k \in DOMAIN rows |-> rows[CHOOSE i \in DOMAIN rows : place[i] = k]]

\* The one element of a one-element set: `The({F(v) : v \in {e}})` is F(e) with e
\* computed once.
The(S) == CHOOSE x \in S : TRUE

SortWith(rows, key) ==
    The({Permute(rows, place) : place \in {[i \in DOMAIN key |-> PlaceOf(key, i)]}})

SortFrame(rows) == The({SortWith(rows, key) : key \in {[i \in DOMAIN rows |-> SortKey(rows[i])]}})

\* sort_values(by=['sample', 'population']).reset_index(drop=True)   (line 41)
SortRows(rows) == The({SortFrame(r) : r \in {rows}})

\* FROM Samples s JOIN Subjects sub ON s.subject_id = sub.subject_id
\* (lines 66-67, 168-169): the Samples rows that have a Subjects row, each
\* with that row beside it.
RECURSIVE JoinRows(_, _)
JoinRows(samples, subjects) ==
    IF samples = <<>> THEN <<>>
    ELSE LET s == Head(samples)
             m == {sub \in subjects : sub.subject_id = s.subject_id}
         IN  (IF m = {} THEN <<>> ELSE <<[s |-> s, sub |-> CHOOSE sub \in m : TRUE]>>)
             \o JoinRows(Tail(samples), subjects)

\* The query resolves: every table it names is in the schema, and every column
\* it names is a column of one of them.
QueryResolves(names, columns) ==
    /\ names \subseteq tables
    /\ columns \subseteq UNION {ColumnsOf(t) : t \in names}

AnalysisFaults == {"none", "connect", "query"}

\* What every analysis operation leaves alone: the store's contents and load_data.
AnalysisFrame == UNCHANGED <<tables, Subjects, Samples, pendSubjects, pendSamples,
                             pc, cur, processed_subjects, source, run, outcome>>

(***************************************************************************)
(* run_analysis (analysis.py lines 13-43).                                 *)
(***************************************************************************)
\* Lines 36-41: total, melt, rename, percentage, column selection, sort.
FrequencySummary(df) ==
    LET long == Melt(WithTotal(df), {"sample_id", "total_count"})
    IN  SortRows([i \in DOMAIN long |->
                    [sample |-> long[i].sample_id, total_count |-> long[i].total_count,
                     population |-> long[i].population, count |-> long[i].count,
                     percentage |-> Round2(long[i].count, long[i].total_count)]])

RunAnalysis(fault) ==
    /\ pc = "idle"
    /\ AnalysisFrame
    /\ UNCHANGED dbExists
    /\ IF ~dbExists
       THEN /\ report' = [op |-> "run_analysis", status |-> "no_db"]      \* lines 19-22
            /\ UNCHANGED openConns
       ELSE IF fault = "connect"
       THEN \* line 26 raises; `if conn` in finally then raises for the unbound name
            /\ report' = [op |-> "run_analysis", status |-> "raised"]
            /\ UNCHANGED openConns
       ELSE IF fault = "query" \/ ~QueryResolves({"Samples"}, {})
       THEN /\ report' = [op |-> "run_analysis", status |-> "error"]      \* lines 28-30
            /\ Close("run_analysis")                                      \* lines 31-33
       ELSE /\ report' = [op |-> "run_analysis", status |-> "ok",
                          long |-> FrequencySummary(Samples)]
            /\ Close("run_analysis")

(***************************************************************************)
(* run_statistical_analysis (analysis.py lines 46-126).                    *)
(***************************************************************************)
\* Lines 61-65: s.*, sub.condition, sub.treatment, sub.response.
StatColumns(j) == j.s @@ [condition |-> j.sub.condition, treatment |-> j.sub.treatment,
                          response |-> j.sub.response]

StatFrame == LET j == JoinRows(Samples, Subjects)
             IN  [i \in DOMAIN j |-> StatColumns(j[i])]

\* Lines 61-67: the columns the query names (s.* names none).
StatQueryColumns == {"condition", "treatment", "response", "subject_id"}

\* Lines 74-78.
StatFilter(r) == /\ r.condition = "melanoma"
                 /\ r.treatment = "miraclib"
                 /\ r.sample_type = "PBMC"

\* Lines 82-89: the long form with its percentage column.
StatLong(df_filtered) ==
    LET long == Melt(WithTotal(df_filtered), {"sample_id", "response", "total_count"})
    IN  [i \in DOMAIN long |->
           long[i] @@ [percentage |-> Percentage(long[i].count, long[i].total_count)]]

\* Lines 113-114: the percentage series of one population and one response value.
GroupSeries(df_long, pop, resp) ==
    SelectSeq(df_long, LAMBDA r : r.population = pop /\ r.response = resp)

\* nan_policy='omit': how many observations the test is computed from.
NonMissing(series) == Len(SelectSeq(series, LAMBDA r : ~r.percentage.nan))

\* The observations of a series: its percentages that are not NaN.
Observed(series) == SelectSeq(series, LAMBDA r : ~r.percentage.nan)

SamePercentage(a, b) == a.percentage.num * b.percentage.den = b.percentage.num * a.percentage.den

\* All observations of the series are one value: its sample variance is 0.
IsConstant(obs) == \A i, j \in DOMAIN obs : SamePercentage(obs[i], obs[j])

\* ttest_ind (line 117), by the cases of t = (mean1 - mean2) / denom: NaN when a
\* group has fewer than two observations (its sample variance is 0/0) or when both
\* variances are 0 and the means agree (t = 0/0); 0.0 when both variances are 0 and
\* the means differ (t is infinite); else a number in (0, 1] that the model does
\* not compute.
TTestPValue(yes, no) ==
    IF Len(yes) < 2 \/ Len(no) < 2 THEN "nan"
    ELSE IF IsConstant(yes) /\ IsConstant(no)
         THEN (IF SamePercentage(yes[1], no[1]) THEN "nan" ELSE "0.0")
         ELSE "number"

\* Lines 111-126: one block of the report per population, in list order.  Line 117
\* runs the test and lines 121-125 print a p-value and a conclusion for every
\* population; `nan < 0.05` is False, so NaN prints the else branch.
PopulationResult(df_long, pop) ==
    LET responders == GroupSeries(df_long, pop, "yes")
        non_responders == GroupSeries(df_long, pop, "no")
        p == TTestPValue(Observed(responders), Observed(non_responders))
    IN  [population |-> pop,
         n_yes |-> NonMissing(responders), n_no |-> NonMissing(non_responders),
         test_run |-> TRUE,
         p_value_reported |-> TRUE, p_value |-> p,
         conclusion_reported |-> TRUE,
         conclusion |-> CASE p = "nan" -> "not significant"
                          [] p = "0.0" -> "significant"
                          [] OTHER -> "by p < 0.05"]

RunStatisticalAnalysis(fault) ==
    /\ pc = "idle"
    /\ AnalysisFrame
    /\ UNCHANGED dbExists
    /\ IF ~dbExists
       THEN /\ report' = [op |-> "run_statistical_analysis", status |-> "no_db"]
            /\ UNCHANGED openConns
       ELSE IF fault = "connect"
       THEN /\ report' = [op |-> "run_statistical_analysis", status |-> "raised"]
            /\ UNCHANGED openConns
       ELSE IF fault = "query" \/ ~QueryResolves({"Samples", "Subjects"}, StatQueryColumns)
       THEN /\ report' = [op |-> "run_statistical_analysis", status |-> "raised"]
            /\ Close("run_statistical_analysis")                          \* lines 70-71
       ELSE LET df_filtered == SelectSeq(StatFrame, StatFilter)
                df_long == StatLong(df_filtered)
            IN  /\ report' = [op |-> "run_statistical_analysis", status |-> "ok",
                              cohort |-> df_filtered, long |-> df_long,
                              results |-> [k \in DOMAIN CELL_POPULATIONS |->
                                             PopulationResult(df_long, CELL_POPULATIONS[k])]]
                /\ Close("run_statistical_analysis")

(***************************************************************************)
(* run_subset_analysis (analysis.py lines 142-209).                        *)
(***************************************************************************)
\* Lines 158-167: the selected columns.
SubsetColumns(j) ==
    [project |-> j.sub.project, subject_id |-> j.sub.subject_id,
     condition |-> j.sub.condition, sex |-> j.sub.sex, treatment |-> j.sub.treatment,
     response |-> j.sub.response, sample_id |-> j.s.sample_id,
     sample_type |-> j.s.sample_type,
     time_from_treatment_start |-> j.s.time_from_treatment_start]

SubsetFrame == LET j == JoinRows(Samples, Subjects)
               IN  [i \in DOMAIN j |-> SubsetColumns(j[i])]

\* Lines 158-169: the columns the query names.
SubsetQueryColumns == {"project", "subject_id", "condition", "sex", "treatment", "response",
                       "sample_id", "sample_type", "time_from_treatment_start"}

\* Lines 176-181.
SubsetFilter(r) == /\ r.condition = "melanoma"
                   /\ r.treatment = "miraclib"
                   /\ r.sample_type = "PBMC"
                   /\ r.time_from_treatment_start = 0

\* df.groupby(col).size(): rows per value of col.
GroupSize(df, col) ==
    [v \in {df[i][col] : i \in DOMAIN df} |->
       Cardinality({i \in DOMAIN df : df[i][col] = v})]

\* Counting the group's rows where the distinct subjects are asked for.
GroupRowsNotSubjects(df, col) == GroupSize(df, col)

\* df.groupby(col)['subject_id'].nunique(): distinct subjects per value of col.
GroupNUnique(df, col) ==
    [v \in {df[i][col] : i \in DOMAIN df} |->
       Cardinality({df[i].subject_id : i \in {k \in DOMAIN df : df[k][col] = v}})]

\* An emptiness test that never fires.
NeverEmpty(df) == FALSE

\* baseline_subset.empty (line 183).
IsEmpty(df) == Len(df) = 0

RunSubsetAnalysis(fault) ==
    /\ pc = "idle"
    /\ AnalysisFrame
    /\ UNCHANGED dbExists
    /\ IF ~dbExists
       THEN /\ report' = [op |-> "run_subset_analysis", status |-> "no_db"]
            /\ UNCHANGED openConns
       ELSE IF fault = "connect"
       THEN /\ report' = [op |-> "run_subset_analysis", status |-> "raised"]
            /\ UNCHANGED openConns
       ELSE IF fault = "query" \/ ~QueryResolves({"Samples", "Subjects"}, SubsetQueryColumns)
       THEN /\ report' = [op |-> "run_subset_analysis", status |-> "raised"]
            /\ Close("run_subset_analysis")                               \* lines 172-173
       ELSE LET baseline_subset == SelectSeq(SubsetFrame, SubsetFilter)
            IN  /\ report' =
                     IF IsEmpty(baseline_subset)
                     THEN [op |-> "run_subset_analysis", status |-> "no_data",
                           summaries |-> {}]                              \* lines 183-185
                     ELSE [op |-> "run_subset_analysis", status |-> "ok",
                           summaries |-> {"project", "response", "sex"},
                           n |-> Len(baseline_subset),
                           project_counts |-> GroupSize(baseline_subset, "project"),
                           response_counts |-> GroupNUnique(baseline_subset, "response"),
                           sex_counts |-> GroupNUnique(baseline_subset, "sex")]
                /\ Close("run_subset_analysis")

(***************************************************************************)
(* calculate_avg_b_cells (part4_query.py lines 4-26).                      *)
(***************************************************************************)
\* The rows of a table of the store, by name.
TableRows(name) == CASE name = "Samples" -> Samples
                     [] OTHER -> <<>>

\* Lines 13-19: the WHERE clause.
AvgFilter(r) == /\ r.condition = "melanoma"
                /\ r.sample_type = "PBMC"
                /\ r.treatment = "miraclib"
                /\ r.sex = "M"
                /\ r.response = "yes"
                /\ r.time = 0

\* df['b_cell'].mean(): NaN for no rows, else sum / n.
Mean(df, col) == IF Len(df) = 0 THEN [nan |-> TRUE, sum |-> 0, n |-> 0]
                 ELSE [nan |-> FALSE, sum |-> SumOver([c \in DOMAIN df |-> df[c][col]],
                                                      [i \in DOMAIN df |-> i]),
                       n |-> Len(df)]

\* Line 12: FROM cell_counts.
AvgQueryTables == {"cell_counts"}

\* Lines 11-19: the columns the query names.
AvgQueryColumns == {"b_cell", "condition", "sample_type", "treatment", "sex", "response",
                    "time"}

CalculateAvgBCells(fault) ==
    /\ pc = "idle"
    /\ AnalysisFrame
    /\ IF fault = "connect"
       THEN /\ report' = [op |-> "calculate_avg_b_cells", status |-> "raised",
                           fault |-> fault]
            /\ UNCHANGED <<dbExists, openConns>>
       ELSE /\ dbExists' = TRUE            \* line 9: connect creates a missing file
            /\ IF fault = "query" \/ ~QueryResolves(AvgQueryTables, AvgQueryColumns)
               THEN \* line 21 raises; line 23 is not reached
                    /\ report' = [op |-> "calculate_avg_b_cells", status |-> "raised",
                                   fault |-> fault]
                    /\ Open("calculate_avg_b_cells")
               ELSE /\ report' = [op |-> "calculate_avg_b_cells", status |-> "ok",
                                  fault |-> fault,
                                  average |-> Mean(SelectSeq(TableRows("cell_counts"),
                                                             AvgFilter), "b_cell")]
                    /\ Close("calculate_avg_b_cells")

(***************************************************************************)
(* Specification of the analysis operations: each runs, in any order, on   *)
(* a store a successful ingestion has left.  The stores are those of three *)
(* subjects and at most MaxSamples samples; since no analysis result but   *)
(* the row order of a long form depends on the order of the Samples rows,  *)
(* the stores are enumerated up to that order.  calculate_avg_b_cells is   *)
(* part of SpecPipeline.                                                   *)
(***************************************************************************)
CohortSubjects ==
    {[subject_id |-> "s1", project |-> "prj1", condition |-> "melanoma", age |-> 34,
      sex |-> "M", treatment |-> "miraclib", response |-> "yes"],
     [subject_id |-> "s2", project |-> "prj2", condition |-> "melanoma", age |-> 51,
      sex |-> "F", treatment |-> "miraclib", response |-> "no"],
     [subject_id |-> "s3", project |-> "prj1", condition |-> "carcinoma", age |-> 60,
      sex |-> "M", treatment |-> "miraclib", response |-> "yes"]}

Normal == [b_cell |-> 12, cd8_t_cell |-> 7, cd4_t_cell |-> 3, nk_cell |-> 5, monocyte |-> 9]

Blank == [b_cell |-> 0, cd8_t_cell |-> 0, cd4_t_cell |-> 0, nk_cell |-> 0, monocyte |-> 0]

Skewed == [b_cell |-> 2, cd8_t_cell |-> 7, cd4_t_cell |-> 3, nk_cell |-> 5, monocyte |-> 3]

Draw(subject, type, time) ==
    [subject_id |-> subject, sample_type |-> type, time_from_treatment_start |-> time]

\* The kinds of Samples row: a baseline PBMC sample, one with other proportions,
\* one with all counts zero, a later PBMC sample and a whole-blood sample of the
\* responder s1 and of the non-responder s2, and a baseline PBMC sample of s3, who
\* is outside the cohort.
KindOrder ==
    <<Draw("s1", "PBMC", 0) @@ Normal, Draw("s1", "PBMC", 0) @@ Skewed,
      Draw("s1", "PBMC", 0) @@ Blank,
      Draw("s1", "PBMC", 7) @@ Normal, Draw("s1", "WB", 0) @@ Normal,
      Draw("s2", "PBMC", 0) @@ Normal, Draw("s2", "PBMC", 0) @@ Skewed,
      Draw("s2", "PBMC", 0) @@ Blank,
      Draw("s2", "PBMC", 7) @@ Normal, Draw("s2", "WB", 0) @@ Normal,
      Draw("s3", "PBMC", 0) @@ Normal>>

SampleKinds == DOMAIN KindOrder

KindRow(k, id) == [sample_id |-> id] @@ KindOrder[k]

\* The non-decreasing sequences of at most n kinds, none below lo.
RECURSIVE KindSeqs(_, _)
KindSeqs(n, lo) ==
    IF n = 0 THEN {<<>>}
    ELSE {<<>>} \cup UNION {{<<k>> \o t : t \in KindSeqs(n - 1, k)} :
                               k \in {x \in SampleKinds : x >= lo}}

AnalysisStores ==
    {[i \in DOMAIN q |-> KindRow(q[i], SampleIdOrder[i])] :
       q \in KindSeqs(MaxSamples, 1)}

InitAnalysis ==
    /\ dbExists = TRUE
    /\ tables = {"Subjects", "Samples"}
    /\ Samples \in AnalysisStores
    /\ Subjects = {sub \in CohortSubjects :
                     \E i \in DOMAIN Samples : Samples[i].subject_id = sub.subject_id}
    /\ pendSubjects = {}
    /\ pendSamples = <<>>
    /\ openConns = {}
    /\ pc = "idle"
    /\ cur = NoRow
    /\ processed_subjects = {}
    /\ source = <<>>
    /\ run = "loaded"
    /\ outcome = [op |-> "load_data", status |-> "ok"]
    /\ report = [op |-> "none"]

NextAnalysis ==
    \/ \E fault \in AnalysisFaults : RunAnalysis(fault)
    \/ \E fault \in AnalysisFaults : RunStatisticalAnalysis(fault)
    \/ \E fault \in AnalysisFaults : RunSubsetAnalysis(fault)

SpecAnalysis == InitAnalysis /\ [][NextAnalysis]_vars

(***************************************************************************)
(* Specification of the whole pipeline: the six operations in any order.   *)
(***************************************************************************)
PipelineRows == {MkRow(s, "prj1", a, id, n) :
                   s \in {"s1", "s2"}, a \in {<<"3", "4">>, <<"x">>}, id \in {"a", "b"},
                   n \in {BaselineNumbers,
                          [BaselineNumbers EXCEPT !["nk_cell"] = <<"x">>]}}

NextPipeline ==
    \/ \E fault \in AnalysisFaults : CalculateAvgBCells(fault)
    \/ \E fault \in AnalysisFaults : RunAnalysis(fault)
    \/ \E fault \in AnalysisFaults : RunStatisticalAnalysis(fault)
    \/ \E fault \in AnalysisFaults : RunSubsetAnalysis(fault)
    \/ \E fault \in InitFaults : InitializeDatabase(fault)
    \/ \E fault \in LoadFaults : LoadDataStart(fault)
    \/ \E row \in PipelineRows : ReadRow(row)
    \/ InsertSample
    \/ \E fault \in BOOLEAN : EndOfFile(fault)

SpecPipeline == Init /\ [][NextPipeline]_vars

(***************************************************************************)
(* Properties.                                                             *)
(***************************************************************************)
\* The run initialize_database(); load_data() has ended.
RunEnded == pc = "idle" /\ run = "loaded"

\* The store holds a Samples row for every source row, in order, and a Subjects
\* row for every subject a source row names.
WholeFileLanded ==
    /\ Len(Samples) = Len(source)
    /\ \A i \in DOMAIN source : /\ Samples[i].sample_id = source[i].sample
                                /\ Samples[i].subject_id = source[i].subject
                                /\ \E sub \in Subjects : sub.subject_id = source[i].subject

\* C1: when the run initialize_database(); load_data() ends, nothing is pending and
\* the store holds either rows for every source row of the file (success) or no
\* Subjects row and no Samples row at all (missing file, failing connect, any row
\* that raises); never some rows of the file and not others.
AllOrNothing ==
    RunEnded =>
        /\ pendSubjects = {}
        /\ pendSamples = <<>>
        /\ \/ outcome.status = "ok" /\ WholeFileLanded
           \/ outcome.status # "ok" /\ Subjects = {} /\ Samples = <<>>

\* The second row of the file raised after the first had been inserted.
AllOrNothingWitness ==
    /\ RunEnded
    /\ outcome.status = "error"
    /\ Len(source) = 2
    /\ IsIntText(source[1].age) /\ SampleIntsParse(source[1])

\* The first source row that names subject s.
FirstRowOf(s) ==
    source[CHOOSE i \in DOMAIN source :
             /\ source[i].subject = s
             /\ \A j \in DOMAIN source : source[j].subject = s => i <= j]

SourceSubjects == {source[i].subject : i \in DOMAIN source}

\* C2: after a successful ingestion, Subjects holds exactly one row per distinct
\* `subject` value, with the project, condition, age, sex, treatment and response
\* of the first source row of that subject, and Samples holds exactly one row per
\* source row.
OneSubjectPerValueFromFirstRow ==
    (RunEnded /\ outcome.status = "ok") =>
        /\ Cardinality(Subjects) = Cardinality(SourceSubjects)
        /\ \A s \in SourceSubjects :
             \E sub \in Subjects :
                /\ sub.subject_id = s
                /\ sub.project = FirstRowOf(s).project
                /\ sub.condition = FirstRowOf(s).condition
                /\ sub.age = IntOf(FirstRowOf(s).age)
                /\ sub.sex = FirstRowOf(s).sex
                /\ sub.treatment = FirstRowOf(s).treatment
                /\ sub.response = FirstRowOf(s).response
        /\ Len(Samples) = Len(source)
        /\ \A i \in DOMAIN source : /\ Samples[i].sample_id = source[i].sample
                                    /\ Samples[i].subject_id = source[i].subject

\* Two rows of one subject that disagree about its project were ingested.
OneSubjectPerValueWitness ==
    /\ RunEnded
    /\ outcome.status = "ok"
    /\ Len(source) = 2
    /\ source[1].subject = source[2].subject
    /\ source[1].project # source[2].project

\* C3: a row with a non-numeric or empty `age`, `time_from_treatment_start` or
\* population count makes the pass fail, whichever row of the file it is.
MalformedRowFailsRun ==
    (pc = "idle" /\ outcome.op = "load_data"
       /\ \E i \in DOMAIN source : ~IsIntText(source[i].age) \/ ~SampleIntsParse(source[i]))
    => outcome.status # "ok"

\* C8: in every state, every Samples row the connection sees (committed or
\* pending) has its Subjects row, and a pending Samples row's subject was inserted
\* or met earlier in this pass.
SampleHasSubject ==
    /\ \A i \in DOMAIN VisibleSamples :
         \E sub \in VisibleSubjects : sub.subject_id = VisibleSamples[i].subject_id
    /\ \A i \in DOMAIN pendSamples :
         /\ pendSamples[i].subject_id \in processed_subjects
         /\ \E sub \in pendSubjects : sub.subject_id = pendSamples[i].subject_id

\* Mid-pass: a second sample of a subject is pending beside the subject's one row.
SampleHasSubjectWitness ==
    /\ pc = "reading"
    /\ Len(pendSamples) = 2
    /\ Cardinality(pendSubjects) = 1

(***************************************************************************)
(* The cohort of run_subset_analysis, read off the store.                  *)
(***************************************************************************)
SubjectOfSample(i) == CHOOSE sub \in Subjects : sub.subject_id = Samples[i].subject_id

BaselineCohort ==
    {i \in DOMAIN Samples :
       /\ Samples[i].sample_type = "PBMC"
       /\ Samples[i].time_from_treatment_start = 0
       /\ \E sub \in Subjects : /\ sub.subject_id = Samples[i].subject_id
                                /\ sub.condition = "melanoma"
                                /\ sub.treatment = "miraclib"}

CohortValues(col) == {SubjectOfSample(i)[col] : i \in BaselineCohort}

CohortSubjectsWith(col, v) ==
    {Samples[i].subject_id : i \in {k \in BaselineCohort : SubjectOfSample(k)[col] = v}}

CohortRowsWith(col, v) == {i \in BaselineCohort : SubjectOfSample(i)[col] = v}

CountsSubjects(counts, col) ==
    /\ DOMAIN counts = CohortValues(col)
    /\ \A v \in CohortValues(col) : counts[v] = Cardinality(CohortSubjectsWith(col, v))

CountsRows(counts, col) ==
    /\ DOMAIN counts = CohortValues(col)
    /\ \A v \in CohortValues(col) : counts[v] = Cardinality(CohortRowsWith(col, v))

SubsetReported == report.op = "run_subset_analysis" /\ report.status = "ok"

\* C4 as stated: each of the three summaries counts distinct subjects.
AllSummariesCountSubjects ==
    SubsetReported =>
        /\ CountsSubjects(report.project_counts, "project")
        /\ CountsSubjects(report.response_counts, "response")
        /\ CountsSubjects(report.sex_counts, "sex")

\* C4 as amended: the per-response and per-sex summaries count distinct subjects
\* (a subject with k >= 1 cohort samples adds 1); the per-project summary counts
\* samples (that subject adds k to its project).
ResponseAndSexCountSubjects ==
    SubsetReported =>
        /\ CountsRows(report.project_counts, "project")
        /\ CountsSubjects(report.response_counts, "response")
        /\ CountsSubjects(report.sex_counts, "sex")

\* A subject contributes two samples to the reported cohort.
ResponseAndSexWitness ==
    /\ SubsetReported
    /\ \E i, j \in BaselineCohort : i # j /\ Samples[i].subject_id = Samples[j].subject_id
    /\ Cardinality(CohortValues("response")) = 2

SubsetRan == report.op = "run_subset_analysis" /\ report.status \in {"ok", "no_data"}

\* C7 as stated: on an empty cohort the three summaries are still produced, empty.
EmptyCohortGivesEmptySummaries ==
    (SubsetRan /\ BaselineCohort = {}) =>
        /\ report.status = "ok"
        /\ report.summaries = {"project", "response", "sex"}

\* C7 as amended: on an empty cohort run_subset_analysis reports that no data
\* matched and returns without error, producing none of the three summaries; it
\* produces them exactly when the cohort is not empty.
EmptyCohortSkipsSummaries ==
    SubsetRan =>
        /\ (BaselineCohort = {}) = (report.status = "no_data")
        /\ report.summaries = IF BaselineCohort = {} THEN {}
                              ELSE {"project", "response", "sex"}

\* The store has samples, none of them in the cohort.
EmptyCohortWitness ==
    /\ SubsetRan
    /\ BaselineCohort = {}
    /\ Len(Samples) >= 2
    /\ report.status = "no_data"

StatReported == report.op = "run_statistical_analysis" /\ report.status = "ok"

\* C5: for a population with fewer than 2 non-missing observations in either
\* group the test is not run and neither a p-value nor a conclusion is reported.
InsufficientDataIsGuarded ==
    StatReported =>
        \A k \in DOMAIN report.results :
            (report.results[k].n_yes < 2 \/ report.results[k].n_no < 2) =>
                /\ ~report.results[k].test_run
                /\ ~report.results[k].p_value_reported
                /\ ~report.results[k].conclusion_reported

\* Every sample of `wide` has each population exactly once in `long`, with its count.
CoversOnce(wide, long, idcol) ==
    /\ Len(long) = Len(wide) * Len(CELL_POPULATIONS)
    /\ \A i \in DOMAIN wide : \A p \in PopulationSet :
         LET m == {j \in DOMAIN long : long[j][idcol] = wide[i].sample_id
                                       /\ long[j].population = p}
         IN  /\ Cardinality(m) = 1
             /\ \A j \in m : long[j].count = wide[i][p]

\* C6: the long form has exactly R x P rows and holds, for each input sample,
\* each population of the fixed list exactly once with that sample's count.
ReshapeConservesRows ==
    /\ StatReported => CoversOnce(report.cohort, report.long, "sample_id")
    /\ (report.op = "run_analysis" /\ report.status = "ok")
         => CoversOnce(Samples, report.long, "sample")

\* A cohort of three rows, one of them with all counts zero, was reshaped.
ReshapeWitness ==
    /\ StatReported
    /\ Len(report.cohort) = 3
    /\ Len(report.long) = 3 * Len(CELL_POPULATIONS)
    /\ \E i \in DOMAIN report.cohort : report.cohort[i].b_cell = 0

\* The samples calculate_avg_b_cells is written for, read off the store.
MaleResponderBaseline ==
    {i \in DOMAIN Samples :
       /\ Samples[i].sample_type = "PBMC"
       /\ Samples[i].time_from_treatment_start = 0
       /\ \E sub \in Subjects : /\ sub.subject_id = Samples[i].subject_id
                                /\ sub.condition = "melanoma"
                                /\ sub.treatment = "miraclib"
                                /\ sub.sex = "M"
                                /\ sub.response = "yes"}

RECURSIVE SumBCells(_)
SumBCells(idx) == IF idx = {} THEN 0
                  ELSE LET i == CHOOSE k \in idx : TRUE
                       IN  Samples[i].b_cell + SumBCells(idx \ {i})

\* C9: on a store a successful ingestion produced (here one with samples of male
\* melanoma responders on miraclib, PBMC at baseline), and with no fault of the
\* environment, calculate_avg_b_cells ends without error and returns the average
\* b_cell count over exactly those samples.
AvgQueryRunsOnIngestedStore ==
    (report.op = "calculate_avg_b_cells" /\ report.fault = "none"
       /\ run = "loaded" /\ outcome.status = "ok" /\ MaleResponderBaseline # {})
    => /\ report.status = "ok"
       /\ report.average = [nan |-> FALSE, sum |-> SumBCells(MaleResponderBaseline),
                            n |-> Cardinality(MaleResponderBaseline)]

\* C10: between operations no connection is open.
NoConnectionLeftOpen == pc = "idle" => openConns = {}

====
